---- MODULE Spec2Model ----
(***************************************************************************)
(* Model of exr-wrapper's core: wrapper.rewrap and wrapper.split_subimages *)
(* (src/src/wrapper.py).  One run of rewrap is a state machine: planning   *)
(* of the output subimages (already-multipart loop, split loop or          *)
(* single-part), then the codec calls open / append-open / write_image /   *)
(* close on the output, whose results the codec decides.                   *)
(*                                                                         *)
(* Strings are sequences of one-character strings, so that split('.'),     *)
(* the substring test `in` and strip("'") are computed, not assumed.       *)
(***************************************************************************)
EXTENDS Integers, Sequences, FiniteSets, TLC

(* ------------------------------------------------------------------ *)
(* Bounds of the model                                                *)
(* ------------------------------------------------------------------ *)
\* longest enumerated channel-name list of a source (sub)image
MaxChannels == 3
\* most user metadata attributes of a source (sub)image (besides compression)
MaxAttribs == 3
\* most subimages of an already-multipart source
MaxSubimages == 2
\* the pixel grid of a source is GridSize x GridSize
GridSize == 2

\* Python's None, where a string is expected: no string of characters equals it
None == <<"None">>

(* ------------------------------------------------------------------ *)
(* Strings                                                            *)
(* ------------------------------------------------------------------ *)
s_R == <<"R">>
s_G == <<"G">>
s_B == <<"B">>
s_A == <<"A">>
s_Y == <<"Y">>
s_rgba == <<"r", "g", "b", "a">>
s_depth == <<"d", "e", "p", "t", "h">>
s_depth_z == <<"d", "e", "p", "t", "h", ".", "z">>
s_depth_Z == <<"d", "e", "p", "t", "h", ".", "Z">>
s_lightgroup == <<"l", "i", "g", "h", "t", "g", "r", "o", "u", "p">>
s_lightgroup_R == s_lightgroup \o <<".", "R">>
s_lightgroup_G == s_lightgroup \o <<".", "G">>
s_manifest == <<"m", "a", "n", "i", "f", "e", "s", "t">>
s_a_manifest == <<"a", "/">> \o s_manifest
s_b_manifest == <<"b", "/">> \o s_manifest
s_Manifest == <<"M", "a", "n", "i", "f", "e", "s", "t">>
s_owner == <<"o", "w", "n", "e", "r">>
s_compression == <<"c", "o", "m", "p", "r", "e", "s", "s", "i", "o", "n">>
s_Compression == <<"C", "o", "m", "p", "r", "e", "s", "s", "i", "o", "n">>
s_name == <<"n", "a", "m", "e">>
s_keep == <<"k", "e", "e", "p">>
s_zip == <<"z", "i", "p">>
s_q_zip == <<"'", "z", "i", "p", "'">>
s_piz == <<"p", "i", "z">>

\* Python: sub in s  (substring test)
Contains(sub, s) ==
    \E k \in 0..(Len(s) - Len(sub)) : SubSeq(s, k + 1, k + Len(sub)) = sub

RECURSIVE SplitFirst(_, _)
\* Python: s.split(sep)[0]  (the text before the first sep; all of s without one)
SplitFirst(s, sep) ==
    IF s = << >> \/ Head(s) = sep THEN << >>
    ELSE <<Head(s)>> \o SplitFirst(Tail(s), sep)

RECURSIVE LStrip(_, _)
LStrip(s, ch) == IF s # << >> /\ Head(s) = ch THEN LStrip(Tail(s), ch) ELSE s

RECURSIVE RStrip(_, _)
RStrip(s, ch) ==
    IF s # << >> /\ s[Len(s)] = ch THEN RStrip(SubSeq(s, 1, Len(s) - 1), ch) ELSE s

\* Python: s.strip(ch)
Strip(s, ch) == RStrip(LStrip(s, ch), ch)

\* lower case of one character (the upper-case letters the model's names use)
LowerChar(c) ==
    CASE c = "C" -> "c"
      [] c = "M" -> "m"
      [] c = "R" -> "r"
      [] c = "G" -> "g"
      [] c = "B" -> "b"
      [] c = "A" -> "a"
      [] c = "Y" -> "y"
      [] c = "Z" -> "z"
      [] OTHER -> c

Lower(s) == [k \in 1..Len(s) |-> LowerChar(s[k])]

(* ------------------------------------------------------------------ *)
(* OpenImageIO objects the code works on                              *)
(* ------------------------------------------------------------------ *)
\* a metadata attribute (ParamValue): name, type tag, value; the value carries
\* the Python type it is handed over as
Attr(name, type, py, v) == [name |-> name, type |-> type, value |-> [py |-> py, v |-> v]]
StrValue(v) == [py |-> "str", v |-> v]

\* ImageSpec.attribute(name, value): the type follows from the Python value
TypeOfValue(value) ==
    CASE value.py = "str" -> "string"
      [] value.py = "int" -> "int"
      [] value.py = "float" -> "float"
      [] OTHER -> "unknown"

\* ImageSpec.find_attribute(name): first attribute of that name, case-insensitive
\* (0: none)
FindAttribute(attribs, name) ==
    LET hits == {k \in 1..Len(attribs) : Lower(attribs[k].name) = Lower(name)}
    IN  IF hits = {} THEN 0 ELSE CHOOSE k \in hits : \A j \in hits : k <= j

\* ImageSpec.attribute(name, type, value): replaces the attribute of that name,
\* appends it when there is none; an empty name sets nothing
SetAttributeTyped(attribs, name, type, value) ==
    LET k == FindAttribute(attribs, name)
        a == [name |-> name, type |-> type, value |-> value]
    IN  IF name = << >> THEN attribs
        ELSE IF k = 0 THEN Append(attribs, a)
        ELSE [attribs EXCEPT ![k] = a]

\* ImageSpec.attribute(name, value)
SetAttribute(attribs, name, value) ==
    SetAttributeTyped(attribs, name, TypeOfValue(value), value)

\* ImageSpec.getattribute(name): the value, None when there is no such attribute
GetAttribute(attribs, name) ==
    LET k == FindAttribute(attribs, name)
    IN  IF k = 0 THEN StrValue(None) ELSE attribs[k].value

RECURSIVE SelectNot(_, _)
SelectNot(attribs, name) ==
    IF attribs = << >> THEN << >>
    ELSE IF Lower(Head(attribs).name) = Lower(name) THEN SelectNot(Tail(attribs), name)
    ELSE <<Head(attribs)>> \o SelectNot(Tail(attribs), name)

\* ImageSpec.erase_attribute(name): removes the attribute of that name
EraseAttribute(attribs, name) == SelectNot(attribs, name)

\* a region of interest (ROI); the ends are exclusive
ROI(xb, xe, yb, ye, chb, che) ==
    [xbegin |-> xb, xend |-> xe, ybegin |-> yb, yend |-> ye, chbegin |-> chb, chend |-> che]

InROI(p, roi) ==
    /\ roi.xbegin <= p[1] /\ p[1] < roi.xend
    /\ roi.ybegin <= p[2] /\ p[2] < roi.yend

Min(S) == CHOOSE a \in S : \A b \in S : a <= b
Max(S) == CHOOSE a \in S : \A b \in S : a >= b

\* ImageBufAlgo.nonzero_region(image, roi): roi trimmed to the rows and columns
\* that hold a non-zero pixel; every row and column is trimmed away, leaving a
\* region of no pixels at roi's origin, when there is none
NonzeroRegion(nonzero, roi) ==
    LET nz == {p \in nonzero : InROI(p, roi)}
    IN  IF nz = {}
        THEN [roi EXCEPT !.xend = roi.xbegin, !.yend = roi.ybegin]
        ELSE [roi EXCEPT !.xbegin = Min({p[1] : p \in nz}),
                         !.xend = Max({p[1] : p \in nz}) + 1,
                         !.ybegin = Min({p[2] : p \in nz}),
                         !.yend = Max({p[2] : p \in nz}) + 1]

\* one subimage of a source file: its channel names, metadata, native region
\* and the pixels that are not zero
SubImage(channelnames, attribs, roi, nonzero) ==
    [channelnames |-> channelnames, extra_attribs |-> attribs, roi |-> roi,
     nonzero |-> nonzero]

\* ImageBuf.nativespec(): the spec of the subimage read
NativeSpec(sub) ==
    [nchannels |-> Len(sub.channelnames), channelnames |-> sub.channelnames,
     roi |-> sub.roi, extra_attribs |-> sub.extra_attribs]

\* ImageBufAlgo.cut(ImageBufAlgo.channels(image, names), roi): the pixels of the
\* named channels of source subimage `subimage`, cut to roi
Cut(subimage, names, roi) == [subimage |-> subimage, channels |-> names, roi |-> roi]

(* ------------------------------------------------------------------ *)
(* rewrap.update_specs                                                *)
(* ------------------------------------------------------------------ *)
\* The iteration modes of `for attribute in spec.extra_attribs` while the loop
\* body erases from that list.  "live": the iteration re-reads the list's
\* length at every step (the index-based sequence protocol).  "stale": the
\* iteration runs over the begin/end pair taken before the loop, so it reads
\* the slots behind the shrunken list, which still hold what was last there.
IterModes == {"live", "stale"}

RECURSIVE EraseLoop(_, _, _, _, _)
\* mem: the slots of the attribute list, n: how many of them are the list,
\* k: the slot the iteration reads next, end: the length before the loop
EraseLoop(mem, n, k, end, mode) ==
    IF k > (IF mode = "live" THEN n ELSE end) THEN SubSeq(mem, 1, n)
    ELSE IF Contains(s_manifest, mem[k].name)
         THEN LET live == EraseAttribute(SubSeq(mem, 1, n), mem[k].name)
                  mem2 == live \o SubSeq(mem, Len(live) + 1, Len(mem))
              IN  EraseLoop(mem2, Len(live), k + 1, end, mode)
         ELSE EraseLoop(mem, n, k + 1, end, mode)

\* Python truth value of the compression option: None and '' are false
Truthy(s) == s # None /\ s # << >>

UpdateSpecs(spec, props, mode) ==
    LET erased == IF props.rm_manifest
                  THEN EraseLoop(spec.extra_attribs, Len(spec.extra_attribs), 1,
                                 Len(spec.extra_attribs), mode)
                  ELSE spec.extra_attribs
        attribs == IF Truthy(props.compression)
                   THEN SetAttribute(erased, s_Compression,
                                     StrValue(Strip(props.compression, "'")))
                   ELSE erased
    IN  [spec EXCEPT !.roi = props.roi, !.extra_attribs = attribs]

(* ------------------------------------------------------------------ *)
(* split_subimages: the pieces of one loop iteration                  *)
(* ------------------------------------------------------------------ *)
\* the layer a channel belongs to
CurrentSub(channel_name) ==
    IF channel_name \in {s_R, s_G, s_B, s_A} THEN s_rgba
    ELSE SplitFirst(channel_name, ".")

\* Python: names[a:b] for 0 <= a
PySlice(names, a, b) == SubSeq(names, a + 1, IF b < Len(names) THEN b ELSE Len(names))

RECURSIVE CopyAttribs(_, _, _)
\* the metadata of the source copied to the first subimage's spec
CopyAttribs(dst, attribs, rm_manifest) ==
    IF attribs = << >> THEN dst
    ELSE LET a == Head(attribs)
         IN  IF rm_manifest /\ Contains(s_manifest, a.name)
             THEN CopyAttribs(dst, Tail(attribs), rm_manifest)
             ELSE IF a.type \in {"string", "int", "float"}
             THEN CopyAttribs(SetAttribute(dst, a.name, a.value), Tail(attribs), rm_manifest)
             ELSE CopyAttribs(SetAttributeTyped(dst, a.name, a.type, a.value),
                              Tail(attribs), rm_manifest)

\* SubCompression keeping the source's compression whatever the option
SubCompression_keepSource(attribs, props, native) ==
    SetAttribute(attribs, s_compression, GetAttribute(native.extra_attribs, s_compression))

\* the compression attribute of a subimage's spec
SubCompression(attribs, props, native) ==
    IF Truthy(props.compression)
    THEN SetAttribute(attribs, s_compression, StrValue(Strip(props.compression, "'")))
    ELSE SetAttribute(attribs, s_compression, GetAttribute(native.extra_attribs, s_compression))

FixChannelName(channel_name) ==
    IF Contains(s_depth_z, channel_name) THEN s_depth_Z ELSE channel_name

\* DstChannelNames with the unchanged names left out of the corrected list
DstChannelNames_onlyFixed(src_channel_names, fix_channels) ==
    IF fix_channels
    THEN LET hit == SelectSeq(src_channel_names, LAMBDA c : Contains(s_depth_z, c))
         IN  [k \in 1..Len(hit) |-> s_depth_Z]
    ELSE src_channel_names

\* the channel names written for a subimage
DstChannelNames(src_channel_names, fix_channels) ==
    IF fix_channels
    THEN [k \in 1..Len(src_channel_names) |-> FixChannelName(src_channel_names[k])]
    ELSE src_channel_names

\* is the channel at channelindex the start of a new subimage or the last one
NewSubimage(recent_sub, current_sub, channelindex, nchannels) ==
    (recent_sub # << >> /\ current_sub # recent_sub) \/ channelindex + 1 = nchannels

\* SubimageName taking the layer of the channel that ends the subimage
SubimageName_current(recent_sub, current_sub) == current_sub

\* the name the subimage found at this channel gets
SubimageName(recent_sub, current_sub) == recent_sub

\* SubimageSpec copying the source's metadata to every subimage
SubimageSpec_copyAll(native, props, sub_start, sub_end, sub_ch_count, name) ==
    LET copied == CopyAttribs(<< >>, native.extra_attribs, props.rm_manifest)
        src_channel_names == PySlice(native.channelnames, sub_start, sub_end + 1)
    IN  [nchannels |-> sub_ch_count,
         channelnames |-> DstChannelNames(src_channel_names, props.fix_channels),
         roi |-> props.roi,
         extra_attribs |-> SetAttribute(SubCompression(copied, props, native),
                                        s_name, StrValue(name))]

\* the spec of the subimage found, channels sub_start..sub_end
SubimageSpec(native, props, sub_start, sub_end, sub_ch_count, name) ==
    LET copied == IF sub_start = 0
                  THEN CopyAttribs(<< >>, native.extra_attribs, props.rm_manifest)
                  ELSE << >>
        src_channel_names == PySlice(native.channelnames, sub_start, sub_end + 1)
    IN  [nchannels |-> sub_ch_count,
         channelnames |-> DstChannelNames(src_channel_names, props.fix_channels),
         roi |-> props.roi,
         extra_attribs |-> SetAttribute(SubCompression(copied, props, native),
                                        s_name, StrValue(name))]

(* ------------------------------------------------------------------ *)
(* State                                                              *)
(* ------------------------------------------------------------------ *)
VARIABLES
    src,           \* the source file: the sequence of its subimages
    args,          \* the options rewrap is called with
    properties,    \* rewrap's properties dictionary (<< >> before line 224)
    channelindex,  \* split_subimages' channelindex
    pos,           \* split_subimages: how many channels the for loop has taken
    i,             \* the index of rewrap's subimage loops (lines 247, 265)
    pc,            \* where the run of rewrap is
    calls,         \* the calls made on the output codec, in order
    result,        \* what rewrap returned ("True", "False"), "none" while it
                   \* runs, "raised" when it ended in an exception
    fs,            \* the file system: what is at each path
    srcfile,       \* the path rewrap reads (main's and run's src)
    dstfile,       \* the path rewrap writes (main's and run's dst)
    caller,        \* who calls rewrap: "main", "thread", "none" for a bare call
    arguments,     \* main's arguments / the thread's properties
    files,         \* the input files found (find_files)
    fidx,          \* how many of them the for loop has taken
    opc,           \* where main / WrapperThread.run is
    prev_backup,   \* main's and run's prev_backup
    bakdir,        \* does the _BAK directory exist
    done_count,    \* main's and run's i: the files gone through
    outcomes,      \* how each file the loop took ended: rewrap's result, or why
                   \* the file was left alone
    canceled,      \* WrapperThread.canceled ("unset" before it is first assigned)
    running,       \* QThread.isRunning()
    messages,      \* the messages the thread emitted
    window_open,   \* the main window is open
    cancel_at      \* the calls of WrapperThread.cancel: where the worker was at each

ovars == <<srcfile, dstfile, caller, arguments, files, fidx, opc, prev_backup, bakdir,
           done_count, outcomes, canceled, running, messages, window_open, cancel_at>>

vars == <<src, args, properties, channelindex, pos, i, pc, calls, result, fs, ovars>>

\* the image rewrap works on: line 225 reads subimage 0, the already-multipart
\* loop rebinds image_in to each subimage in turn and leaves the last one
image_in == src[1]

NoPixels == Cut(0, << >>, ROI(0, 0, 0, 0, 0, 0))

Call(op, specs, pixels, index, ok) ==
    [op |-> op, specs |-> specs, pixels |-> pixels, index |-> index, ok |-> ok]

(* ------------------------------------------------------------------ *)
(* Paths and files                                                    *)
(* ------------------------------------------------------------------ *)
\* the highest frame number of an input sequence
MaxFrames == 1

\* how often the cancel button is pressed
MaxCancels == 1

\* A path: the directory it lies in ("in": the input's directory, "bak": its
\* _BAK directory, "out": the output's directory) and its file name, which is a
\* single file's name (kind "single"), a frame of a sequence (kind "frame",
\* with the frame number) or the sequence's printf pattern itself ("pattern").
Path(dir, kind, frame) == [dir |-> dir, kind |-> kind, frame |-> frame]

Frames == 0..MaxFrames

Paths ==
    {Path(d, "frame", f) : d \in {"in", "bak", "out"}, f \in Frames}
        \cup {Path(d, k, 0) : d \in {"in", "bak", "out"}, k \in {"single", "pattern"}}

\* what is at a path: nothing, the original content of an input file, an
\* older file that was there before the run, or what rewrap wrote from a source
Absent == [kind |-> "absent", of |-> Path("in", "single", 0)]
Original(p) == [kind |-> "original", of |-> p]
Older(p) == [kind |-> "older", of |-> p]
Written(content) == [kind |-> "written", of |-> content.of]

\* os.path.isfile(p)
IsFile(files_on_disk, p) == files_on_disk[p].kind # "absent"

\* shutil.move(a, b)
Move(files_on_disk, a, b) == [files_on_disk EXCEPT ![b] = files_on_disk[a], ![a] = Absent]

\* os.remove(p)
Remove(files_on_disk, p) == [files_on_disk EXCEPT ![p] = Absent]

\* frame_of(path): the frame number in the file name, None without one
NoFrame == [some |-> FALSE, value |-> 0]
FrameOf(p) == IF p.kind = "frame" THEN [some |-> TRUE, value |-> p.frame] ELSE NoFrame

\* the exception dst_path raises
Raised == Path("raised", "single", 0)

\* dst_path without its check of the destination
DstPath_noCheck(p, output_path, overwrite, files_on_disk) ==
    LET frame == FrameOf(p)
    IN  IF frame.some /\ frame.value # 0 /\ output_path.kind = "pattern"
        THEN Path(output_path.dir, "frame", frame.value)
        ELSE output_path

\* dst_path(src, output_path, overwrite); `frame and ...` is false for frame 0
DstPath(p, output_path, overwrite, files_on_disk) ==
    LET frame == FrameOf(p)
        dst == IF frame.some /\ frame.value # 0 /\ output_path.kind = "pattern"
               THEN Path(output_path.dir, "frame", frame.value)
               ELSE output_path
    IN  IF IsFile(files_on_disk, dst) /\ ~overwrite THEN Raised ELSE dst

\* os.path.join(backup_dir, os.path.basename(image_file))
BackupPath(p) == Path("bak", p.kind, p.frame)

\* is the _BAK directory empty
BakEmpty(files_on_disk) ==
    \A p \in Paths : p.dir = "bak" => ~IsFile(files_on_disk, p)

(* ------------------------------------------------------------------ *)
(* The sources and options a run starts from                          *)
(* ------------------------------------------------------------------ *)
RECURSIVE InjSeqs(_, _)
\* the sequences of at most n different elements of S
InjSeqs(S, n) ==
    IF n = 0 THEN {<< >>}
    ELSE LET shorter == InjSeqs(S, n - 1)
         IN  shorter \cup
             {Append(s, x) : <<s, x>> \in
                  {y \in shorter \X S : \A k \in 1..Len(y[1]) : y[1][k] # y[2]}}

ChannelAlphabet == {s_R, s_G, s_depth_z, s_depth_Z, s_Y}

ExampleChannels == <<s_R, s_G, s_B, s_A, s_depth_Z, s_lightgroup_R, s_lightgroup_G>>

ChannelLists == (InjSeqs(ChannelAlphabet, MaxChannels) \ {<< >>}) \cup {ExampleChannels}

CompressionAttr == Attr(s_compression, "string", "str", s_piz)

AttrPool ==
    {Attr(s_a_manifest, "string", "str", <<"x">>),
     Attr(s_b_manifest, "string", "str", <<"y">>),
     Attr(s_Manifest, "int", "int", <<"1">>),
     Attr(s_owner, "string", "str", <<"m", "e">>),
     Attr(<<"w", "2", "c">>, "matrix", "tuple", <<"0">>)}

\* the metadata of a source subimage: its compression and some user attributes
AttrLists == {<<CompressionAttr>> \o s : s \in InjSeqs(AttrPool, MaxAttribs)}

Grid == (0..(GridSize - 1)) \X (0..(GridSize - 1))

\* the region of an image that fills the grid
GridROI(nchannels) == ROI(0, GridSize, 0, GridSize, 0, nchannels)

FlatSource(channelnames, attribs, nonzero) ==
    <<SubImage(channelnames, attribs, GridROI(Len(channelnames)), nonzero)>>

\* the j-th part of a multi-part source: its layer, its own window and pixels
PartChannels(j) ==
    CASE j = 1 -> <<s_R, s_G, s_B, s_A>>
      [] j = 2 -> <<s_depth_z>>
      [] j = 3 -> <<s_lightgroup_R, s_lightgroup_G>>
      [] OTHER -> <<s_Y>>

PartName(j) ==
    CASE j = 1 -> s_rgba
      [] j = 2 -> s_depth
      [] j = 3 -> s_lightgroup
      [] OTHER -> s_Y

PartROI(j) ==
    IF j = 1 THEN GridROI(Len(PartChannels(j)))
    ELSE ROI(0, 1, 0, GridSize, 0, Len(PartChannels(j)))

MultiSource(n, attribs, nonzero) ==
    [j \in 1..n |->
        SubImage(PartChannels(j),
                 (IF j = 1 THEN attribs
                  ELSE <<CompressionAttr, Attr(s_b_manifest, "string", "str", <<"y">>)>>)
                     \o <<Attr(s_name, "string", "str", PartName(j))>>,
                 PartROI(j),
                 IF j = 1 THEN nonzero ELSE {<<0, 0>>})]

CompressionOptions == {None, s_keep, s_zip, s_q_zip}

Args(autocrop, multipart, rm_manifest, fix_channels, compression) ==
    [autocrop |-> autocrop, multipart |-> multipart, rm_manifest |-> rm_manifest,
     fix_channels |-> fix_channels, compression |-> compression]

DefaultAttribs == <<CompressionAttr, Attr(s_a_manifest, "string", "str", <<"x">>),
                    Attr(s_owner, "string", "str", <<"m", "e">>)>>

\* flat sources of every channel list, under every switch
InitChannels ==
    /\ \E ch \in ChannelLists : src = FlatSource(ch, DefaultAttribs, {<<0, 0>>})
    /\ \E a, m, r, f \in BOOLEAN : args = Args(a, m, r, f, None)

\* flat and multi-part sources of every metadata list and compression option
InitMetadata ==
    /\ \E at \in AttrLists :
          \/ src = FlatSource(<<s_R, s_G, s_depth_Z>>, at, {<<0, 0>>})
          \/ \E n \in 2..MaxSubimages : src = MultiSource(n, at, {<<0, 0>>})
    /\ \E m, r \in BOOLEAN, c \in CompressionOptions : args = Args(FALSE, m, r, FALSE, c)

\* flat and multi-part sources of every pixel content
InitPixels ==
    /\ \E nz \in SUBSET Grid :
          \/ src = FlatSource(<<s_R, s_G, s_depth_Z>>, DefaultAttribs, nz)
          \/ \E n \in 2..MaxSubimages : src = MultiSource(n, DefaultAttribs, nz)
    /\ \E a, m \in BOOLEAN : args = Args(a, m, FALSE, TRUE, None)

\* no output option (the GUI's empty output field)
NoOutput == Path("none", "single", 0)

\* the output key popped from the thread's properties
Popped == Path("popped", "single", 0)

\* no framerange option
NoRange == [some |-> FALSE, first |-> 0, last |-> 0]

\* the framerange 'first-last'
Range(first, last) == [some |-> TRUE, first |-> first, last |-> last]

\* main's arguments, the thread's properties
Arguments(input, output, overwrite, no_backup, dryrun, framerange) ==
    [input |-> input, output |-> output, overwrite |-> overwrite, no_backup |-> no_backup,
     dryrun |-> dryrun, framerange |-> framerange]

\* arguments.get('output') is set
HasOutput(a) == a.output \notin {NoOutput, Popped}

\* the frames from a on, in order, of a set of frames
RECURSIVE SortedFrom(_, _)
SortedFrom(a, frames) ==
    IF a > MaxFrames THEN << >>
    ELSE (IF a \in frames THEN <<Path("in", "frame", a)>> ELSE << >>)
             \o SortedFrom(a + 1, frames)

\* find_files(input_path, framerange): the path itself without a pattern, the
\* frames of the range, or else the frames found on disk, sorted
FindFiles(input_path, framerange, files_on_disk) ==
    IF input_path.kind # "pattern" THEN <<input_path>>
    ELSE IF framerange.some
         THEN SortedFrom(framerange.first, framerange.first..framerange.last)
         ELSE SortedFrom(0, {f \in Frames : IsFile(files_on_disk, Path("in", "frame", f))})

\* rewrap called on its own: one file read, another written
BareCall ==
    /\ srcfile = Path("in", "single", 0)
    /\ dstfile = Path("out", "single", 0)
    /\ fs = [p \in Paths |-> IF p = Path("in", "single", 0) THEN Original(p) ELSE Absent]
    /\ caller = "none"
    /\ arguments = Arguments(Path("in", "single", 0), Path("out", "single", 0),
                             FALSE, FALSE, FALSE, NoRange)
    /\ files = <<Path("in", "single", 0)>>
    /\ fidx = 0
    /\ opc = "rewrap"
    /\ prev_backup = "unbound"
    /\ bakdir = FALSE
    /\ done_count = 0
    /\ outcomes = << >>
    /\ canceled = "unset"
    /\ running = FALSE
    /\ messages = << >>
    /\ window_open = FALSE
    /\ cancel_at = << >>

Init ==
    /\ InitChannels \/ InitMetadata \/ InitPixels
    /\ properties = << >>
    /\ channelindex = 0
    /\ pos = 0
    /\ i = 0
    /\ pc = "begin"
    /\ calls = << >>
    /\ result = "none"
    /\ BareCall

(* ------------------------------------------------------------------ *)
(* rewrap, lines 224-258: setting up and planning                     *)
(* ------------------------------------------------------------------ *)
\* the region all subimages are cut to
InitialROI(image, autocrop) ==
    IF autocrop THEN NonzeroRegion(image.nonzero, image.roi) ELSE image.roi

\* RewrapBegin with split_subimages leaving the region's channel end alone
RewrapBegin_keepChend ==
    /\ pc = "begin"
    /\ LET roi == InitialROI(image_in, args.autocrop)
           split == Len(src) = 1 /\ args.multipart
       IN  properties' =
               [autocrop |-> args.autocrop,
                multipart |-> args.multipart,
                rm_manifest |-> args.rm_manifest,
                fix_channels |-> args.fix_channels,
                compression |-> IF args.compression = s_keep THEN None
                                ELSE args.compression,
                roi |-> roi,
                recent_sub |-> << >>,
                current_sub |-> << >>,
                sub_ch_count |-> 0,
                sub_start |-> 0,
                sub_end |-> 0,
                sub_specs |-> << >>,
                sub_pixels |-> << >>,
                sub_names |-> << >>,
                nsubimages |-> Len(src)]
    /\ pc' = IF Len(src) > 1 THEN "multi_loop"
             ELSE IF args.multipart THEN "split_loop"
             ELSE "open_single"
    /\ UNCHANGED <<src, args, channelindex, pos, i, calls, result, fs>>
    /\ UNCHANGED ovars

\* lines 224-246 and the choice of the planning case (241, 255, 257);
\* split_subimages' line 123-124 when it is entered
RewrapBegin ==
    /\ pc = "begin"
    /\ LET roi == InitialROI(image_in, args.autocrop)
           split == Len(src) = 1 /\ args.multipart
       IN  properties' =
               [autocrop |-> args.autocrop,
                multipart |-> args.multipart,
                rm_manifest |-> args.rm_manifest,
                fix_channels |-> args.fix_channels,
                compression |-> IF args.compression = s_keep THEN None
                                ELSE args.compression,
                roi |-> IF split THEN [roi EXCEPT !.chend = 4] ELSE roi,
                recent_sub |-> << >>,
                current_sub |-> << >>,
                sub_ch_count |-> 0,
                sub_start |-> 0,
                sub_end |-> 0,
                sub_specs |-> << >>,
                sub_pixels |-> << >>,
                sub_names |-> << >>,
                nsubimages |-> Len(src)]
    /\ pc' = IF Len(src) > 1 THEN "multi_loop"
             ELSE IF args.multipart THEN "split_loop"
             ELSE "open_single"
    /\ UNCHANGED <<src, args, channelindex, pos, i, calls, result, fs>>
    /\ UNCHANGED ovars

\* MultipartSubimage reading the file's first subimage in every iteration
MultipartSubimage_firstOnly ==
    /\ pc = "multi_loop"
    /\ i < properties.nsubimages
    /\ \E mode \in IterModes :
          LET image == src[1]
              spec == UpdateSpecs(NativeSpec(image), properties, mode)
          IN  properties' =
                  [properties EXCEPT
                      !.sub_specs = Append(@, spec),
                      !.sub_pixels = Append(@, Cut(1, image.channelnames, properties.roi)),
                      !.sub_names = Append(@, GetAttribute(image.extra_attribs, s_name).v)]
    /\ i' = i + 1
    /\ UNCHANGED <<src, args, channelindex, pos, pc, calls, result, fs>>
    /\ UNCHANGED ovars

\* lines 247-254: one iteration of the loop over the subimages of a source
\* that is multi-part already
MultipartSubimage ==
    /\ pc = "multi_loop"
    /\ i < properties.nsubimages
    /\ \E mode \in IterModes :
          LET image == src[i + 1]
              spec == UpdateSpecs(NativeSpec(image), properties, mode)
          IN  properties' =
                  [properties EXCEPT
                      !.sub_specs = Append(@, spec),
                      !.sub_pixels = Append(@, Cut(i + 1, image.channelnames, properties.roi)),
                      !.sub_names = Append(@, GetAttribute(image.extra_attribs, s_name).v)]
    /\ i' = i + 1
    /\ UNCHANGED <<src, args, channelindex, pos, pc, calls, result, fs>>
    /\ UNCHANGED ovars

\* the loop of lines 247-254 is over
MultipartDone ==
    /\ pc = "multi_loop"
    /\ i >= properties.nsubimages
    /\ i' = 0
    /\ pc' = "open"
    /\ UNCHANGED <<src, args, properties, channelindex, pos, calls, result, fs>>
    /\ UNCHANGED ovars

(* ------------------------------------------------------------------ *)
(* split_subimages, lines 125-195                                     *)
(* ------------------------------------------------------------------ *)
\* SplitChannel without the case of the last channel (lines 134-136)
SplitChannel_noLastCase ==
    /\ pc = "split_loop"
    /\ pos < Len(image_in.channelnames)
    /\ LET native == NativeSpec(image_in)
           channel_name == native.channelnames[pos + 1]
           current_sub == CurrentSub(channel_name)
           found == NewSubimage(properties.recent_sub, current_sub, channelindex,
                                native.nchannels)
           last == channelindex + 1 = native.nchannels
           count == properties.sub_ch_count
           index == channelindex
           sub_start == index - count
           sub_end == index - 1
           name == SubimageName(properties.recent_sub, current_sub)
           spec == SubimageSpec(native, properties, sub_start, sub_end, count, name)
           pixels == Cut(1, PySlice(native.channelnames, sub_start, sub_end + 1),
                         properties.roi)
       IN  IF found
           THEN /\ properties' =
                       [properties EXCEPT
                           !.current_sub = current_sub,
                           !.sub_start = sub_start,
                           !.sub_end = sub_end,
                           !.sub_names = Append(@, name),
                           !.sub_specs = Append(@, spec),
                           !.sub_pixels = Append(@, pixels),
                           !.recent_sub = current_sub,
                           !.sub_ch_count = 1]
                /\ channelindex' = index + 1
           ELSE /\ properties' =
                       [properties EXCEPT
                           !.current_sub = current_sub,
                           !.recent_sub = current_sub,
                           !.sub_ch_count = @ + 1]
                /\ channelindex' = channelindex + 1
    /\ pos' = pos + 1
    /\ UNCHANGED <<src, args, i, pc, calls, result, fs>>
    /\ UNCHANGED ovars

\* lines 125-191: one iteration of the loop over the channels
SplitChannel ==
    /\ pc = "split_loop"
    /\ pos < Len(image_in.channelnames)
    /\ LET native == NativeSpec(image_in)
           channel_name == native.channelnames[pos + 1]
           current_sub == CurrentSub(channel_name)
           found == NewSubimage(properties.recent_sub, current_sub, channelindex,
                                native.nchannels)
           last == channelindex + 1 = native.nchannels
           count == IF last THEN properties.sub_ch_count + 1 ELSE properties.sub_ch_count
           index == IF last THEN channelindex + 1 ELSE channelindex
           sub_start == index - count
           sub_end == index - 1
           name == SubimageName(properties.recent_sub, current_sub)
           spec == SubimageSpec(native, properties, sub_start, sub_end, count, name)
           pixels == Cut(1, PySlice(native.channelnames, sub_start, sub_end + 1),
                         properties.roi)
       IN  IF found
           THEN /\ properties' =
                       [properties EXCEPT
                           !.current_sub = current_sub,
                           !.sub_start = sub_start,
                           !.sub_end = sub_end,
                           !.sub_names = Append(@, name),
                           !.sub_specs = Append(@, spec),
                           !.sub_pixels = Append(@, pixels),
                           !.recent_sub = current_sub,
                           !.sub_ch_count = 1]
                /\ channelindex' = index + 1
           ELSE /\ properties' =
                       [properties EXCEPT
                           !.current_sub = current_sub,
                           !.recent_sub = current_sub,
                           !.sub_ch_count = @ + 1]
                /\ channelindex' = channelindex + 1
    /\ pos' = pos + 1
    /\ UNCHANGED <<src, args, i, pc, calls, result, fs>>
    /\ UNCHANGED ovars

\* lines 192-195 and rewrap's line 256: the loop is over; on a mismatch
\* split_subimages returns None, and rewrap's properties.get at line 260 raises
SplitReturn ==
    /\ pc = "split_loop"
    /\ pos >= Len(image_in.channelnames)
    /\ IF Len(properties.sub_specs) # Len(properties.sub_pixels)
       THEN pc' = "done" /\ result' = "raised"
       ELSE /\ pc' = IF properties.sub_specs # << >> THEN "open" ELSE "open_single"
            /\ UNCHANGED result
    /\ UNCHANGED <<src, args, properties, channelindex, pos, i, calls, fs>>
    /\ UNCHANGED ovars

(* ------------------------------------------------------------------ *)
(* rewrap, lines 259-286: writing                                     *)
(* ------------------------------------------------------------------ *)
\* lines 260-265: the output is opened with the specs of all subimages; a
\* successful open creates the destination file
OpenOutput ==
    /\ pc = "open"
    /\ \E ok \in BOOLEAN :
          /\ calls' = Append(calls, Call("open", properties.sub_specs, NoPixels, 0, ok))
          /\ IF ok
             THEN /\ fs' = [fs EXCEPT ![dstfile] = Written(fs[srcfile])]
                  /\ pc' = IF properties.sub_pixels # << >> THEN "write" ELSE "close"
                  /\ UNCHANGED result
             ELSE pc' = "done" /\ result' = "False" /\ UNCHANGED fs
    /\ i' = 0
    /\ UNCHANGED <<src, args, properties, channelindex, pos>>
    /\ UNCHANGED ovars

\* AppendSubimage going on to write after a failed append
AppendSubimage_noReturn ==
    /\ pc = "append"
    /\ \E ok \in BOOLEAN :
          calls' = Append(calls, Call("append", <<properties.sub_specs[i + 1]>>,
                                      NoPixels, i, ok))
    /\ pc' = "write"
    /\ UNCHANGED <<src, args, properties, channelindex, pos, i, result, fs>>
    /\ UNCHANGED ovars

\* lines 269-273: the next subimage is opened with its own spec
AppendSubimage ==
    /\ pc = "append"
    /\ \E ok \in BOOLEAN :
          /\ calls' = Append(calls, Call("append", <<properties.sub_specs[i + 1]>>,
                                         NoPixels, i, ok))
          /\ IF ok
             THEN pc' = "write" /\ UNCHANGED result
             ELSE pc' = "done" /\ result' = "False"
    /\ UNCHANGED <<src, args, properties, channelindex, pos, i, fs>>
    /\ UNCHANGED ovars

\* AfterWrite writing the next subimage without opening it
AfterWrite_noAppend(k, props) == IF k + 1 < Len(props.sub_pixels) THEN "write" ELSE "close"

\* where the loop of line 266 goes after subimage k
AfterWrite(k, props) == IF k + 1 < Len(props.sub_pixels) THEN "append" ELSE "close"

\* lines 274-275: the pixels of subimage i are written; write_image's answer
\* is not looked at
WriteImage ==
    /\ pc = "write"
    /\ \E ok \in BOOLEAN :
          calls' = Append(calls, Call("write", << >>, properties.sub_pixels[i + 1], i, ok))
    /\ i' = i + 1
    /\ pc' = AfterWrite(i, properties)
    /\ UNCHANGED <<src, args, properties, channelindex, pos, result, fs>>
    /\ UNCHANGED ovars

\* lines 277-282: the single-part output is opened with the source's spec
OpenSingle ==
    /\ pc = "open_single"
    /\ \E ok \in BOOLEAN, mode \in IterModes :
          /\ calls' = Append(calls,
                             Call("open", <<UpdateSpecs(NativeSpec(image_in), properties, mode)>>,
                                  NoPixels, 0, ok))
          /\ IF ok
             THEN /\ fs' = [fs EXCEPT ![dstfile] = Written(fs[srcfile])]
                  /\ pc' = "write_single" /\ UNCHANGED result
             ELSE pc' = "done" /\ result' = "False" /\ UNCHANGED fs
    /\ UNCHANGED <<src, args, properties, channelindex, pos, i>>
    /\ UNCHANGED ovars

\* WriteSingle writing the source's pixels uncut
WriteSingle_nativeROI ==
    /\ pc = "write_single"
    /\ \E ok \in BOOLEAN :
          calls' = Append(calls, Call("write", << >>,
                                      Cut(1, image_in.channelnames, image_in.roi), 0, ok))
    /\ pc' = "close"
    /\ UNCHANGED <<src, args, properties, channelindex, pos, i, result, fs>>
    /\ UNCHANGED ovars

\* lines 283-284: the source's pixels, cut to the region, are written
WriteSingle ==
    /\ pc = "write_single"
    /\ \E ok \in BOOLEAN :
          calls' = Append(calls, Call("write", << >>,
                                      Cut(1, image_in.channelnames, properties.roi), 0, ok))
    /\ pc' = "close"
    /\ UNCHANGED <<src, args, properties, channelindex, pos, i, result, fs>>
    /\ UNCHANGED ovars

\* lines 285-286
Close ==
    /\ pc = "close"
    /\ calls' = Append(calls, Call("close", << >>, NoPixels, 0, TRUE))
    /\ pc' = "done"
    /\ result' = "True"
    /\ UNCHANGED <<src, args, properties, channelindex, pos, i, fs>>
    /\ UNCHANGED ovars

\* line 259 with lines 260 and 279: ImageOutput.create returns None when no
\* writer can be made for dst, and open is then called on None
CreateFails ==
    /\ pc \in {"open", "open_single"}
    /\ pc' = "done"
    /\ result' = "raised"
    /\ UNCHANGED <<src, args, properties, channelindex, pos, i, calls, fs>>
    /\ UNCHANGED ovars

(* ------------------------------------------------------------------ *)
(* main, lines 289-351                                                *)
(* ------------------------------------------------------------------ *)
rewrapvars == <<properties, channelindex, pos, i, pc, calls, result>>

inputs == <<src, args, caller, arguments>>

guivars == <<canceled, running, messages, window_open, cancel_at>>

\* rewrap(src, dst, **arguments) is entered
CallRewrap(s, d) ==
    /\ srcfile' = s
    /\ dstfile' = d
    /\ opc' = "rewrap"
    /\ pc' = "begin"
    /\ properties' = << >>
    /\ channelindex' = 0
    /\ pos' = 0
    /\ i' = 0
    /\ calls' = << >>
    /\ result' = "none"

\* the for loop goes on to the next file
Continue(why) ==
    /\ outcomes' = Append(outcomes, why)
    /\ UNCHANGED <<rewrapvars, fs, srcfile, dstfile, opc>>

\* main's and run's src for an input file
SrcOf(image_file, a) == IF HasOutput(a) THEN image_file ELSE BackupPath(image_file)

\* main's and run's dst for an input file
DstOf(image_file, a, files_on_disk) ==
    IF HasOutput(a) THEN DstPath(image_file, a.output, a.overwrite, files_on_disk)
    ELSE image_file

\* AfterRewrap leaving the backup where it is after a failure
AfterRewrap_noRestore(files_on_disk, a, s, d, ok) ==
    IF ok /\ a.no_backup THEN Remove(files_on_disk, s) ELSE files_on_disk

\* lines 332-343 and the thread's 69-79: the backup is moved back after a
\* failure, or src is removed with no_backup
AfterRewrap(files_on_disk, a, s, d, ok) ==
    IF ~ok /\ ~HasOutput(a) THEN Move(files_on_disk, s, d)
    ELSE IF a.no_backup THEN Remove(files_on_disk, s)
    ELSE files_on_disk

\* bu_dir(input_path): the directory is made, prev_backup tells it was there
BuDir(a) ==
    IF a.output \in {NoOutput, Popped}
    THEN prev_backup' = (IF bakdir THEN "True" ELSE "False") /\ bakdir' = TRUE
    ELSE UNCHANGED <<prev_backup, bakdir>>

\* os.removedirs(backup_dir) in try/except: an empty directory goes
RemoveDirs == bakdir' = (bakdir /\ ~BakEmpty(fs))

\* lines 290-307
MainSetup ==
    /\ caller = "main"
    /\ opc = "start"
    /\ files' = FindFiles(arguments.input, arguments.framerange, fs)
    /\ IF files' = << >>
       THEN opc' = "returned" /\ UNCHANGED <<prev_backup, bakdir>>
       ELSE opc' = "loop" /\ BuDir(arguments)
    /\ UNCHANGED <<inputs, rewrapvars, guivars, fs, srcfile, dstfile, fidx, done_count, outcomes>>

\* MainNextFile without the look for a backup file of an earlier run
MainNextFile_noBackupCheck ==
    /\ caller = "main"
    /\ opc = "loop"
    /\ fidx < Len(files)
    /\ fidx' = fidx + 1
    /\ LET image_file == files[fidx + 1]
           s == SrcOf(image_file, arguments)
           d == DstOf(image_file, arguments, fs)
       IN  IF ~IsFile(fs, image_file)
           THEN Continue("not found") /\ UNCHANGED prev_backup
           ELSE IF d = Raised
           THEN /\ opc' = "raised"
                /\ outcomes' = Append(outcomes, "output exists")
                /\ UNCHANGED <<rewrapvars, fs, srcfile, dstfile, prev_backup>>
           ELSE IF arguments.dryrun
           THEN Continue("dryrun") /\ UNCHANGED prev_backup
           ELSE /\ fs' = IF HasOutput(arguments) THEN fs ELSE Move(fs, d, s)
                /\ CallRewrap(s, d)
                /\ UNCHANGED <<outcomes, prev_backup>>
    /\ UNCHANGED <<inputs, guivars, files, bakdir, done_count>>

\* lines 308-333: one file of the loop, up to the call of rewrap
MainNextFile ==
    /\ caller = "main"
    /\ opc = "loop"
    /\ fidx < Len(files)
    /\ fidx' = fidx + 1
    /\ LET image_file == files[fidx + 1]
           s == SrcOf(image_file, arguments)
           d == DstOf(image_file, arguments, fs)
       IN  IF ~IsFile(fs, image_file)
           THEN Continue("not found") /\ UNCHANGED prev_backup
           ELSE IF d = Raised
           THEN /\ opc' = "raised"
                /\ outcomes' = Append(outcomes, "output exists")
                /\ UNCHANGED <<rewrapvars, fs, srcfile, dstfile, prev_backup>>
           ELSE IF ~HasOutput(arguments) /\ IsFile(fs, s)
           THEN Continue("backup in place") /\ prev_backup' = "True"
           ELSE IF arguments.dryrun
           THEN Continue("dryrun") /\ UNCHANGED prev_backup
           ELSE /\ fs' = IF HasOutput(arguments) THEN fs ELSE Move(fs, d, s)
                /\ CallRewrap(s, d)
                /\ UNCHANGED <<outcomes, prev_backup>>
    /\ UNCHANGED <<inputs, guivars, files, bakdir, done_count>>

\* lines 334-346: rewrap has returned or raised
MainAfterRewrap ==
    /\ caller = "main"
    /\ opc = "rewrap"
    /\ pc = "done"
    /\ fs' = AfterRewrap(fs, arguments, srcfile, dstfile, result = "True")
    /\ done_count' = done_count + 1
    /\ outcomes' = Append(outcomes, result)
    /\ opc' = "loop"
    /\ UNCHANGED <<inputs, rewrapvars, guivars, srcfile, dstfile, files, fidx,
                   prev_backup, bakdir>>

\* lines 347-351: prev_backup is a local that only line 306 and 321 bind
MainFinish ==
    /\ caller = "main"
    /\ opc = "loop"
    /\ fidx = Len(files)
    /\ IF arguments.no_backup /\ prev_backup = "unbound"
       THEN opc' = "raised" /\ UNCHANGED bakdir
       ELSE /\ opc' = "returned"
            /\ IF arguments.no_backup /\ prev_backup = "False"
               THEN RemoveDirs ELSE UNCHANGED bakdir
    /\ UNCHANGED <<inputs, rewrapvars, guivars, fs, srcfile, dstfile, files, fidx,
                   prev_backup, done_count, outcomes>>

(* ------------------------------------------------------------------ *)
(* mainwindow.py: the Manager and the WrapperThread                   *)
(* ------------------------------------------------------------------ *)
\* Manager.run, lines 166-185: the output is popped when it is the input, and
\* the thread is started; isRunning is true from start() on
ManagerRun ==
    /\ caller = "thread"
    /\ opc = "window"
    /\ window_open
    /\ arguments' = IF arguments.input = arguments.output
                    THEN [arguments EXCEPT !.output = Popped] ELSE arguments
    /\ running' = TRUE
    /\ opc' = "started"
    /\ UNCHANGED <<src, args, caller, rewrapvars, fs, srcfile, dstfile, files, fidx,
                   prev_backup, bakdir, done_count, outcomes, canceled, messages,
                   window_open, cancel_at>>

\* Manager.cancel, lines 117-121, with WrapperThread.cancel, lines 35-36
ManagerCancel ==
    /\ caller = "thread"
    /\ window_open
    /\ IF running
       THEN /\ Len(cancel_at) < MaxCancels
            /\ canceled' = "True"
            /\ cancel_at' = Append(cancel_at, [begun |-> fidx, during |-> opc])
            /\ UNCHANGED window_open
       ELSE /\ window_open' = FALSE
            /\ UNCHANGED <<canceled, cancel_at>>
    /\ UNCHANGED <<inputs, rewrapvars, fs, srcfile, dstfile, files, fidx, opc,
                   prev_backup, bakdir, done_count, outcomes, running, messages>>

\* WrapperThread.run, lines 39-45
RunSetup ==
    /\ caller = "thread"
    /\ opc = "started"
    /\ canceled' = "False"
    /\ files' = FindFiles(arguments.input, arguments.framerange, fs)
    /\ BuDir(arguments)
    /\ opc' = "loop"
    /\ UNCHANGED <<inputs, rewrapvars, fs, srcfile, dstfile, fidx, done_count, outcomes,
                   running, messages, window_open, cancel_at>>

\* lines 46-70: one file of the loop, up to the call of rewrap; kwargs['output']
\* raises KeyError when the key was popped
RunNextFile ==
    /\ caller = "thread"
    /\ opc = "loop"
    /\ fidx < Len(files)
    /\ canceled # "True"
    /\ fidx' = fidx + 1
    /\ LET image_file == files[fidx + 1]
           s == SrcOf(image_file, arguments)
           d == DstOf(image_file, arguments, fs)
       IN  IF ~IsFile(fs, image_file)
           THEN /\ Continue("not found")
                /\ messages' = Append(messages, "not found")
                /\ UNCHANGED prev_backup
           ELSE IF arguments.output = Popped
           THEN /\ opc' = "raised"
                /\ outcomes' = Append(outcomes, "no output key")
                /\ UNCHANGED <<rewrapvars, fs, srcfile, dstfile, prev_backup, messages>>
           ELSE IF d = Raised
           THEN /\ opc' = "raised"
                /\ outcomes' = Append(outcomes, "output exists")
                /\ UNCHANGED <<rewrapvars, fs, srcfile, dstfile, prev_backup, messages>>
           ELSE IF ~HasOutput(arguments) /\ IsFile(fs, s)
           THEN /\ opc' = "returned"
                /\ outcomes' = Append(outcomes, "backup in place")
                /\ prev_backup' = "True"
                /\ messages' = Append(messages, "backup in place")
                /\ UNCHANGED <<rewrapvars, fs, srcfile, dstfile>>
           ELSE /\ messages' = Append(messages, "file")
                /\ fs' = IF HasOutput(arguments) THEN fs ELSE Move(fs, d, s)
                /\ CallRewrap(s, d)
                /\ UNCHANGED <<outcomes, prev_backup>>
    /\ UNCHANGED <<inputs, files, bakdir, done_count, canceled, running, window_open,
                   cancel_at>>

\* RunAfterRewrap leaving the loop at once when the thread was canceled
RunAfterRewrap_breaksOnCancel ==
    /\ caller = "thread"
    /\ opc = "rewrap"
    /\ pc = "done"
    /\ IF canceled = "True"
       THEN /\ opc' = "after loop"
            /\ UNCHANGED <<fs, messages, done_count, outcomes>>
       ELSE /\ fs' = AfterRewrap(fs, arguments, srcfile, dstfile, result = "True")
            /\ messages' = IF result # "True" /\ ~HasOutput(arguments)
                           THEN Append(messages, "failed") ELSE messages
            /\ done_count' = done_count + 1
            /\ outcomes' = Append(outcomes, result)
            /\ opc' = "loop"
    /\ UNCHANGED <<inputs, rewrapvars, srcfile, dstfile, files, fidx, prev_backup, bakdir,
                   canceled, running, window_open, cancel_at>>

\* lines 71-82: rewrap has returned or raised
RunAfterRewrap ==
    /\ caller = "thread"
    /\ opc = "rewrap"
    /\ pc = "done"
    /\ fs' = AfterRewrap(fs, arguments, srcfile, dstfile, result = "True")
    /\ messages' = IF result # "True" /\ ~HasOutput(arguments)
                   THEN Append(messages, "failed") ELSE messages
    /\ done_count' = done_count + 1
    /\ outcomes' = Append(outcomes, result)
    /\ opc' = "loop"
    /\ UNCHANGED <<inputs, rewrapvars, srcfile, dstfile, files, fidx, prev_backup, bakdir,
                   canceled, running, window_open, cancel_at>>

\* lines 46-48: the loop ends with the files or breaks on the canceled flag
RunLoopEnd ==
    /\ caller = "thread"
    /\ opc = "loop"
    /\ fidx = Len(files) \/ canceled = "True"
    /\ opc' = "after loop"
    /\ UNCHANGED <<inputs, rewrapvars, guivars, fs, srcfile, dstfile, files, fidx,
                   prev_backup, bakdir, done_count, outcomes>>

\* lines 83-91
RunFinish ==
    /\ caller = "thread"
    /\ opc = "after loop"
    /\ IF arguments.no_backup /\ prev_backup = "unbound"
       THEN opc' = "raised" /\ UNCHANGED <<bakdir, messages>>
       ELSE /\ opc' = "emitted"
            /\ IF arguments.no_backup /\ prev_backup = "False"
               THEN RemoveDirs ELSE UNCHANGED bakdir
            /\ messages' = Append(messages, IF canceled = "True" THEN "Canceled"
                                            ELSE "Finished")
    /\ UNCHANGED <<inputs, rewrapvars, fs, srcfile, dstfile, files, fidx, prev_backup,
                   done_count, outcomes, canceled, running, window_open, cancel_at>>

\* run has returned or raised: the thread is no longer running
ThreadExit ==
    /\ caller = "thread"
    /\ opc \in {"raised", "returned", "emitted"}
    /\ running
    /\ running' = FALSE
    /\ UNCHANGED <<inputs, rewrapvars, fs, srcfile, dstfile, files, fidx, opc, prev_backup,
                   bakdir, done_count, outcomes, canceled, messages, window_open, cancel_at>>

Next ==
    \/ RewrapBegin
    \/ MultipartSubimage
    \/ MultipartDone
    \/ SplitChannel
    \/ SplitReturn
    \/ OpenOutput
    \/ AppendSubimage
    \/ WriteImage
    \/ OpenSingle
    \/ WriteSingle
    \/ Close
    \/ CreateFails

Spec == Init /\ [][Next]_vars

(* ------------------------------------------------------------------ *)
(* Runs of main and of the GUI                                        *)
(* ------------------------------------------------------------------ *)
\* the images of the input files: one to split, one to write single-part, one
\* that is multi-part already
RunImages ==
    {FlatSource(<<s_R, s_G, s_depth_Z>>, DefaultAttribs, {<<0, 0>>}),
     MultiSource(2, DefaultAttribs, {<<0, 0>>})}

\* the inputs: a single file, or a sequence with or without a frame range
RunInputs ==
    {[input |-> Path("in", "single", 0), framerange |-> NoRange]}
        \cup {[input |-> Path("in", "pattern", 0), framerange |-> r] :
                 r \in {NoRange} \cup {Range(a, b) : a, b \in Frames}}

\* the input files on disk, with at most one backup left by an earlier run
InputFiles(present, backup) ==
    [p \in Paths |-> IF p.dir = "in" /\ p \in present THEN Original(p)
                     ELSE IF p.dir = "bak" /\ p \in backup THEN Older(p)
                     ELSE Absent]

InPaths == {Path("in", "single", 0)} \cup {Path("in", "frame", f) : f \in Frames}

OutPaths == {p \in Paths : p.dir = "out"}

\* in place, no output option: single-part images with some files missing and
\* some backed up before, or images of every planning case with all files there
InitInPlace ==
    /\ \E in \in RunInputs, nb, dry \in BOOLEAN :
          arguments = Arguments(in.input, NoOutput, FALSE, nb, dry, in.framerange)
    /\ \/ /\ \E present \in SUBSET InPaths,
                  backup \in {{}} \cup {{BackupPath(p)} : p \in InPaths} :
                  /\ fs = InputFiles(present, backup)
                  /\ bakdir \in {b \in BOOLEAN : backup # {} => b}
          /\ src = FlatSource(<<s_R, s_G, s_depth_Z>>, DefaultAttribs, {<<0, 0>>})
          /\ args = Args(FALSE, FALSE, FALSE, FALSE, None)
       \/ /\ fs = InputFiles(InPaths, {})
          /\ bakdir = FALSE
          /\ \E image \in RunImages, m \in BOOLEAN :
                src = image /\ args = Args(FALSE, m, FALSE, FALSE, None)

\* with an output option: a single file or a sequence, some of it there already
InitOutput ==
    /\ \E in \in RunInputs, ow, nb \in BOOLEAN :
          \E out \in {Path("out", "single", 0), Path("out", "pattern", 0), in.input} :
             arguments = Arguments(in.input, out, ow, nb, FALSE, in.framerange)
    /\ \E there \in {{}} \cup {{p} : p \in OutPaths} :
          fs = [p \in Paths |-> IF p \in InPaths THEN Original(p)
                                ELSE IF p \in there THEN Older(p) ELSE Absent]
    /\ bakdir = FALSE
    /\ src = FlatSource(<<s_R, s_G, s_depth_Z>>, DefaultAttribs, {<<0, 0>>})
    /\ args = Args(FALSE, FALSE, FALSE, FALSE, None)

InitFiles ==
    /\ InitInPlace \/ InitOutput
    /\ caller \in {"main", "thread"}
    /\ caller = "thread" => ~arguments.dryrun /\ arguments.framerange.some
    /\ caller = "main" => arguments.input # arguments.output
    /\ opc = IF caller = "main" THEN "start" ELSE "window"
    /\ window_open = (caller = "thread")
    /\ properties = << >>
    /\ channelindex = 0
    /\ pos = 0
    /\ i = 0
    /\ pc = "idle"
    /\ calls = << >>
    /\ result = "none"
    /\ srcfile = arguments.input
    /\ dstfile = arguments.input
    /\ files = << >>
    /\ fidx = 0
    /\ prev_backup = "unbound"
    /\ done_count = 0
    /\ outcomes = << >>
    /\ canceled = "unset"
    /\ running = FALSE
    /\ messages = << >>
    /\ cancel_at = << >>

NextFiles ==
    \/ Next
    \/ MainSetup
    \/ MainNextFile
    \/ MainAfterRewrap
    \/ MainFinish
    \/ ManagerRun
    \/ ManagerCancel
    \/ RunSetup
    \/ RunNextFile
    \/ RunAfterRewrap
    \/ RunLoopEnd
    \/ RunFinish
    \/ ThreadExit

SpecFiles == InitFiles /\ [][NextFiles]_vars

(* ------------------------------------------------------------------ *)
(* What the claims speak of                                           *)
(* ------------------------------------------------------------------ *)
\* the planning of the subimages is over
Planned == pc \notin {"begin", "multi_loop", "split_loop"} /\ result # "raised"

\* the run is the split case: a single-subimage source and multipart = true
SplitCase == Len(src) = 1 /\ args.multipart

\* the run is the single-part case
SinglePartCase == Len(src) = 1 /\ ~args.multipart

\* the specs handed to the codec's open calls so far, one per subimage opened:
\* the first call opens the first of its specs, an append opens its one spec
OpenedSpecs ==
    LET opens == SelectSeq(calls, LAMBDA c : c.op \in {"open", "append"} /\ c.specs # << >>)
    IN  [k \in 1..Len(opens) |-> opens[k].specs[1]]

\* every spec handed to the codec so far
HandedSpecs ==
    UNION {{calls[n].specs[k] : k \in 1..Len(calls[n].specs)} : n \in 1..Len(calls)}

WriteCalls == SelectSeq(calls, LAMBDA c : c.op = "write")

RECURSIVE Concat(_)
Concat(seqs) == IF seqs = << >> THEN << >> ELSE Head(seqs) \o Concat(Tail(seqs))

\* the channel names of the subimages written, in write order: each write's
\* subimage has the spec opened last before it
WrittenChannelNames ==
    Concat([k \in 1..Len(WriteCalls) |-> OpenedSpecs[k].channelnames])

AttrNames(attribs) == [k \in 1..Len(attribs) |-> attribs[k].name]

HasManifest(attribs) == \E k \in 1..Len(attribs) : Contains(s_manifest, attribs[k].name)

Area(roi) == (roi.xend - roi.xbegin) * (roi.yend - roi.ybegin)

SameWindow(r1, r2) ==
    /\ r1.xbegin = r2.xbegin /\ r1.xend = r2.xend
    /\ r1.ybegin = r2.ybegin /\ r1.yend = r2.yend

(* ------------------------------------------------------------------ *)
(* C1                                                                 *)
(* ------------------------------------------------------------------ *)
\* C1: in the split case no produced subimage holds two adjacent channels of
\* different group keys: a new subimage starts at every change of the key, also
\* when the channel whose key differs is the last channel of the image.
C1_NoMixedSubimage ==
    (SplitCase /\ pc # "begin") =>
        \A k \in 1..Len(properties.sub_pixels) :
            LET ch == properties.sub_pixels[k].channels
            IN  \A j \in 1..(Len(ch) - 1) : CurrentSub(ch[j]) = CurrentSub(ch[j + 1])

(* ------------------------------------------------------------------ *)
(* C3                                                                 *)
(* ------------------------------------------------------------------ *)
\* C3: rewrap returns True only if every open, append and write_image call of
\* the run succeeded.
C3_TrueOnlyIfAllWritten ==
    result = "True" => \A n \in 1..Len(calls) : calls[n].ok

(* ------------------------------------------------------------------ *)
(* C4                                                                 *)
(* ------------------------------------------------------------------ *)
\* C4: after a run with autocrop on a source whose pixels are all zero, every
\* spec handed to the codec and every pixel cut written has the source's native
\* window, never a window without pixels.
C4_AllZeroKeepsNativeRegion ==
    (args.autocrop /\ image_in.nonzero = {} /\ result = "True") =>
        /\ \A s \in HandedSpecs : SameWindow(s.roi, image_in.roi) /\ Area(s.roi) > 0
        /\ \A k \in 1..Len(WriteCalls) :
              /\ SameWindow(WriteCalls[k].pixels.roi, image_in.roi)
              /\ Area(WriteCalls[k].pixels.roi) > 0

(* ------------------------------------------------------------------ *)
(* C7                                                                 *)
(* ------------------------------------------------------------------ *)
\* C7: a single-channel flat image split with multipart = true gives exactly one
\* subimage, of channel 0, whose sub_names entry and 'name' attribute are the
\* group key of the channel.
C7_SingleChannelNamedByKey ==
    (SplitCase /\ Planned /\ Len(image_in.channelnames) = 1) =>
        LET key == CurrentSub(image_in.channelnames[1])
        IN  /\ Len(properties.sub_specs) = 1
            /\ properties.sub_pixels = <<Cut(1, image_in.channelnames, properties.roi)>>
            /\ properties.sub_names = <<key>>
            /\ GetAttribute(properties.sub_specs[1].extra_attribs, s_name) = StrValue(key)

(* ------------------------------------------------------------------ *)
(* C10                                                                *)
(* ------------------------------------------------------------------ *)
\* C10: after a run with rm_manifest no spec the output was opened with has an attribute whose name
\* contains 'manifest', and every other attribute of the source subimage it
\* carries the metadata of (compression and name, which rewrap sets itself,
\* aside) is in it with its name, type and value.
C10_ManifestsRemoved ==
    (args.rm_manifest /\ result = "True") =>
        \A k \in 1..Len(OpenedSpecs) :
            /\ ~HasManifest(OpenedSpecs[k].extra_attribs)
            /\ (Len(src) > 1 \/ k = 1) =>
                  \A a \in {src[k].extra_attribs[j] : j \in 1..Len(src[k].extra_attribs)} :
                      (/\ ~Contains(s_manifest, a.name)
                       /\ Lower(a.name) \notin {s_compression, s_name})
                          => \E j \in 1..Len(OpenedSpecs[k].extra_attribs) :
                                  OpenedSpecs[k].extra_attribs[j] = a

(* ------------------------------------------------------------------ *)
(* C2                                                                 *)
(* ------------------------------------------------------------------ *)
\* the source's channel names as fix_channels writes them
FixedNames(names) ==
    [k \in 1..Len(names) |-> IF Contains(s_depth_z, names[k]) THEN s_depth_Z ELSE names[k]]

C5_FailedOpenEndsRun ==
    \A n \in 1..Len(calls) :
        (calls[n].op \in {"open", "append"} /\ ~calls[n].ok) =>
            n = Len(calls) /\ result = "False" /\ pc = "done"

\* the append-open of a later subimage failed after earlier subimages were written
C5_Witness ==
    /\ Len(calls) >= 3
    /\ calls[Len(calls)].op = "append" /\ ~calls[Len(calls)].ok
    /\ calls[Len(calls)].index + 1 < Len(properties.sub_pixels)
    /\ result = "False"

(* ------------------------------------------------------------------ *)
(* C6                                                                 *)
(* ------------------------------------------------------------------ *)
\* the number of subimages planned
PlannedCount ==
    IF properties.sub_specs # << >> THEN Len(properties.sub_specs) ELSE 1

\* the spec and the pixels planned for subimage k (0-based); the single-part
\* case plans the spec it opens and the whole source cut to the region
PlannedSpec(k) ==
    IF properties.sub_specs # << >> THEN properties.sub_specs[k + 1] ELSE calls[1].specs[1]

PlannedPixels(k) ==
    IF properties.sub_specs # << >> THEN properties.sub_pixels[k + 1]
    ELSE Cut(1, image_in.channelnames, properties.roi)

\* C6: the codec calls of a run are, in this order and with nothing between,
\* open(all specs), write(0), then append-open(spec i), write(i) for
\* i = 1, 2, .., and close after the last subimage; write(i) writes subimage i's
\* pixels right after the open of subimage i's spec, which has as many channels
\* and the same region as the pixels; a run that returned True made all of
\* these calls, so no subimage is written twice or skipped.
C6_CallOrder ==
    calls # << >> =>
        /\ Len(calls) <= 2 * PlannedCount + 1
        /\ result = "True" => Len(calls) = 2 * PlannedCount + 1
        /\ \A n \in 1..Len(calls) :
              LET c == calls[n]
              IN  IF n = 2 * PlannedCount + 1 THEN c.op = "close"
                  ELSE IF n = 1
                  THEN /\ c.op = "open"
                       /\ properties.sub_specs # << >> => c.specs = properties.sub_specs
                  ELSE IF n % 2 = 1
                  THEN /\ c.op = "append"
                       /\ c.index = (n - 1) \div 2
                       /\ c.specs = <<PlannedSpec(c.index)>>
                  ELSE /\ c.op = "write"
                       /\ c.index = (n \div 2) - 1
                       /\ c.pixels = PlannedPixels(c.index)
                       /\ calls[n - 1].op \in {"open", "append"}
                       /\ calls[n - 1].specs[1] = PlannedSpec(c.index)
                       /\ Len(c.pixels.channels) = Len(PlannedSpec(c.index).channelnames)
                       /\ c.pixels.roi = PlannedSpec(c.index).roi

\* a run that wrote three subimages and returned True
C6_Witness == result = "True" /\ Len(WriteCalls) >= 3 /\ Len(calls) = 7

(* ------------------------------------------------------------------ *)
(* C8                                                                 *)
(* ------------------------------------------------------------------ *)
\* C8: for the channels R, G, B, A, depth.Z, lightgroup.R, lightgroup.G and
\* multipart = true, three subimages are planned, rgba of channels 0-3, depth of
\* channel 4 and lightgroup of channels 5-6, each named by its key, and a run
\* that returned True wrote exactly these three in this order.
C8_ExampleGroups ==
    (SplitCase /\ Planned /\ image_in.channelnames = ExampleChannels) =>
        /\ properties.sub_names = <<s_rgba, s_depth, s_lightgroup>>
        /\ Len(properties.sub_specs) = 3 /\ Len(properties.sub_pixels) = 3
        /\ [k \in 1..3 |-> properties.sub_pixels[k].channels] =
               <<SubSeq(ExampleChannels, 1, 4), SubSeq(ExampleChannels, 5, 5),
                 SubSeq(ExampleChannels, 6, 7)>>
        /\ [k \in 1..3 |-> GetAttribute(properties.sub_specs[k].extra_attribs, s_name).v] =
               <<s_rgba, s_depth, s_lightgroup>>
        /\ result = "True" =>
              LET writes == WriteCalls
              IN  /\ OpenedSpecs = properties.sub_specs
                  /\ [k \in 1..Len(writes) |-> writes[k].pixels] = properties.sub_pixels

\* the example image was split, written and rewrap returned True
C8_Witness ==
    SplitCase /\ image_in.channelnames = ExampleChannels /\ result = "True"

(* ------------------------------------------------------------------ *)
(* C9                                                                 *)
(* ------------------------------------------------------------------ *)
\* the attributes of the source that the first subimage is to carry
CarriedAttribs ==
    {a \in {image_in.extra_attribs[j] : j \in 1..Len(image_in.extra_attribs)} :
        /\ ~(args.rm_manifest /\ Contains(s_manifest, a.name))
        /\ Lower(a.name) \notin {s_compression, s_name}}

\* C9: in the split case the subimage found last carries the source's extra
\* attributes exactly when its channels start at index 0, which only the first
\* subimage's do; every other subimage has the attributes compression and name
\* and no others.
C9_MetadataOnFirstOnly ==
    (SplitCase /\ pc # "begin" /\ properties.sub_specs # << >>) =>
        LET n == Len(properties.sub_specs)
            last == properties.sub_specs[n].extra_attribs
        IN  /\ properties.sub_start = 0 <=> n = 1
            /\ properties.sub_start = 0 =>
                  \A a \in CarriedAttribs : \E j \in 1..Len(last) : last[j] = a
            /\ \A k \in 2..n :
                  AttrNames(properties.sub_specs[k].extra_attribs) = <<s_compression, s_name>>

\* a split of a source with user metadata has found a subimage that does not
\* start at channel 0
C9_Witness ==
    /\ SplitCase /\ pc # "begin"
    /\ Len(properties.sub_specs) >= 2 /\ properties.sub_start # 0
    /\ CarriedAttribs # {}

OverrideSet == Truthy(args.compression) /\ args.compression # s_keep

\* the source subimage that the k-th subimage written comes from
SourceOf(k) == IF Len(src) > 1 THEN src[k] ELSE src[1]

CompressionOf(attribs) == GetAttribute(attribs, s_compression).v

\* C14 as stated: after a run that returned True, the compression of every spec
\* the output was opened with is the compression option's value when the option
\* is set and not 'keep', and the compression of its source subimage otherwise.
C14_CompressionIsOption ==
    result = "True" =>
        \A k \in 1..Len(OpenedSpecs) :
            CompressionOf(OpenedSpecs[k].extra_attribs) =
                IF OverrideSet THEN args.compression
                ELSE CompressionOf(SourceOf(k).extra_attribs)

\* C14 as amended: the same, the override being the option's value without the
\* single quotes at its ends.
C14_CompressionIsStrippedOption ==
    result = "True" =>
        \A k \in 1..Len(OpenedSpecs) :
            CompressionOf(OpenedSpecs[k].extra_attribs) =
                IF OverrideSet THEN Strip(args.compression, "'")
                ELSE CompressionOf(SourceOf(k).extra_attribs)

\* a run with the override 'zip' in quotes on a source of several subimages
\* wrote them all with the compression zip, which is not the source's
C14_Witness ==
    /\ Len(src) > 1 /\ args.compression = s_q_zip /\ result = "True"
    /\ Len(OpenedSpecs) >= 2
    /\ CompressionOf(OpenedSpecs[2].extra_attribs) = s_zip
    /\ CompressionOf(OpenedSpecs[2].extra_attribs) # CompressionOf(src[2].extra_attribs)

(* ------------------------------------------------------------------ *)
(* C15                                                                *)
(* ------------------------------------------------------------------ *)
\* the channel names of the whole source, subimage after subimage
SourceChannelNames == Concat([k \in 1..Len(src) |-> src[k].channelnames])

\* C15: after a run with fix_channels that returned True, in every planning
\* case, the channel names written are the source's with every depth.z written
\* as depth.Z and every other name unchanged.
C15_DepthFixedEverywhere ==
    (args.fix_channels /\ result = "True") =>
        WrittenChannelNames =
            [k \in 1..Len(SourceChannelNames) |->
                IF SourceChannelNames[k] = s_depth_z THEN s_depth_Z
                ELSE SourceChannelNames[k]]

(* ------------------------------------------------------------------ *)
(* C16                                                                *)
(* ------------------------------------------------------------------ *)
\* C16: a run on a single-subimage source with multipart = false in which the
\* open succeeded makes exactly the calls open (with one spec, of all the
\* source's channels and the computed region), write_image (of all the
\* source's channels cut to that region) and close, and returns True.
C16_SinglePartWritesOne ==
    (SinglePartCase /\ pc = "done" /\ calls # << >> /\ calls[1].ok) =>
        /\ result = "True"
        /\ Len(calls) = 3
        /\ calls[1].op = "open" /\ Len(calls[1].specs) = 1
        /\ calls[1].specs[1].channelnames = image_in.channelnames
        /\ calls[1].specs[1].roi = properties.roi
        /\ calls[2].op = "write"
        /\ calls[2].pixels.subimage = 1
        /\ calls[2].pixels.channels = image_in.channelnames
        /\ calls[2].pixels.roi = properties.roi
        /\ calls[3].op = "close"

\* a single-part run with autocrop that cut the image and returned True
C16_Witness ==
    /\ SinglePartCase /\ args.autocrop /\ result = "True"
    /\ properties.roi # image_in.roi

(* ------------------------------------------------------------------ *)
(* C18                                                                *)
(* ------------------------------------------------------------------ *)
\* C18: after a run on a source that is multi-part already, the region of every
\* subimage written (of its spec and of its pixel cut) is the region computed
\* from that subimage's own native region and pixels.
C18_OwnRegionPerSubimage ==
    (Len(src) > 1 /\ result = "True") =>
        \A k \in 1..Len(OpenedSpecs) :
            /\ SameWindow(OpenedSpecs[k].roi, InitialROI(src[k], args.autocrop))
            /\ SameWindow(WriteCalls[k].pixels.roi, InitialROI(src[k], args.autocrop))

(* ------------------------------------------------------------------ *)
(* Claims about main and the GUI's worker                             *)
(* ------------------------------------------------------------------ *)
\* a run of main or of the worker without an output path
InPlace == caller # "none" /\ ~HasOutput(arguments)

\* a run of main or of the worker with an output path
WithOutput == caller # "none" /\ HasOutput(arguments)

\* rewrap was called for the k-th file and has come back
Rewrapped(k) == k <= Len(outcomes) /\ outcomes[k] \in {"True", "False", "raised"}

\* rewrap is just being entered
Invoked == caller # "none" /\ opc = "rewrap" /\ pc = "begin"

\* C11: in place, the original is in _BAK and gone from its path when rewrap
\* is entered; after rewrap returned False or raised, the original content is
\* back at its path and not in _BAK; and every file the loop took and found
\* has its original content at its path or at its backup path, unless rewrap
\* succeeded on it with no_backup.
C11_BackupAndRestore ==
    InPlace =>
        /\ Invoked => /\ srcfile = BackupPath(dstfile)
                      /\ fs[srcfile] = Original(dstfile)
                      /\ ~IsFile(fs, dstfile)
        /\ \A k \in 1..fidx :
              LET f == files[k]
              IN  /\ (Rewrapped(k) /\ outcomes[k] # "True") =>
                         fs[f] = Original(f) /\ ~IsFile(fs, BackupPath(f))
                  /\ \/ k <= Len(outcomes) /\ outcomes[k] = "not found"
                     \/ fs[f] = Original(f)
                     \/ fs[BackupPath(f)] = Original(f)
                     \/ Rewrapped(k) /\ outcomes[k] = "True" /\ arguments.no_backup

\* an in-place run in which rewrap failed on one file, which was restored, and
\* succeeded on another, whose original is in _BAK
C11_Witness ==
    /\ InPlace
    /\ \E k, j \in 1..Len(outcomes) :
          /\ outcomes[k] \in {"False", "raised"}
          /\ fs[files[k]] = Original(files[k])
          /\ outcomes[j] = "True"
          /\ fs[files[j]] = Written(Original(files[j]))
          /\ fs[BackupPath(files[j])] = Original(files[j])

\* C12: with an output path, no step of main or of the worker changes what is
\* at the path of an input file, whatever no_backup is and however rewrap ends.
C12_InputsUntouched ==
    [][WithOutput => \A p \in InPaths : fs'[p] = fs[p]]_vars

\* C17: with an output path and without overwrite, no file is at the
\* destination when rewrap is entered.
C17_NoOverwriteWithoutOption ==
    (WithOutput /\ ~arguments.overwrite /\ Invoked) => ~IsFile(fs, dstfile)

\* a run without overwrite that wrote one file, and whose dst_path then raised
\* on a destination that was there
C17_Witness ==
    /\ WithOutput /\ ~arguments.overwrite
    /\ opc = "raised"
    /\ \E k, j \in 1..Len(outcomes) :
          outcomes[k] = "True" /\ outcomes[j] = "output exists"

\* the worker has left its loop
WorkerStopped == caller = "thread" /\ opc \in {"after loop", "emitted", "raised", "returned"}

\* C19: when the worker has left its loop, rewrap is not under way, the calls
\* of a rewrap that returned True end with close, every file the loop took
\* has come to its end, and every file rewrap was called for has had its
\* restore-or-remove step.
C19_FileGranularity ==
    WorkerStopped =>
        /\ pc \in {"idle", "done"}
        /\ (pc = "done" /\ result = "True") => calls[Len(calls)].op = "close"
        /\ Len(outcomes) = fidx
        /\ done_count = Cardinality({k \in 1..fidx : Rewrapped(k)})
        /\ \A k \in 1..fidx :
              LET f == files[k]
              IN  (Rewrapped(k) /\ ~HasOutput(arguments)) =>
                     IF outcomes[k] = "True"
                     THEN /\ fs[f] = Written(Original(f))
                          /\ IsFile(fs, BackupPath(f)) = ~arguments.no_backup
                     ELSE fs[f] = Original(f) /\ ~IsFile(fs, BackupPath(f))

\* the worker was canceled while rewrap was under way on a file that was not
\* the last; rewrap returned True, and the worker ended with 'Canceled'
C19_Witness ==
    /\ caller = "thread"
    /\ opc = "emitted"
    /\ fidx \in 1..(Len(files) - 1)
    /\ Len(outcomes) = fidx
    /\ outcomes[fidx] = "True"
    /\ messages[Len(messages)] = "Canceled"
    /\ \E k \in 1..Len(cancel_at) :
          /\ cancel_at[k].begun = fidx
          /\ cancel_at[k].during = "rewrap"

\* C20: once WrapperThread.cancel was called on the running thread, the worker
\* takes no file beyond the ones it had taken then, and when the thread has
\* ended its last message is 'Canceled'.
C20_CancelNeverLost ==
    (caller = "thread" /\ cancel_at # << >>) =>
        /\ fidx <= cancel_at[1].begun
        /\ ~running => messages # << >> /\ messages[Len(messages)] = "Canceled"

\* the backup file of f was left by an earlier run
OldBackup(f) == fs[BackupPath(f)] = Older(BackupPath(f))

\* C21: in place, no step changes a backup file that an earlier run left, nor
\* the input file of that name; a file that was found with such a backup when
\* its turn came is still at its path with its original content, and the
\* worker has returned at that file.
C21_BackupNeverClobbered ==
    /\ [](InPlace =>
            \A k \in 1..Len(outcomes) :
                outcomes[k] = "backup in place" =>
                    /\ fs[files[k]] = Original(files[k])
                    /\ OldBackup(files[k])
                    /\ caller = "thread" => opc = "returned" /\ k = fidx)
    /\ [][InPlace =>
            \A f \in InPaths :
                OldBackup(f) => /\ fs'[BackupPath(f)] = fs[BackupPath(f)]
                                /\ fs'[f] = fs[f]]_vars

\* main skipped a file whose backup was in place and rewrapped another file
C21_Witness ==
    /\ InPlace /\ caller = "main"
    /\ \E k, j \in 1..Len(outcomes) :
          /\ outcomes[k] = "backup in place"
          /\ OldBackup(files[k])
          /\ outcomes[j] = "True"
          /\ fs[files[j]] = Written(Original(files[j]))

C23_ListsInStep ==
    properties # << >> =>
        /\ Len(properties.sub_specs) = Len(properties.sub_pixels)
        /\ Len(properties.sub_names) = Len(properties.sub_specs)
        /\ (SplitCase /\ properties.sub_specs # << >>) =>
              /\ 0 <= properties.sub_start
              /\ properties.sub_start <= properties.sub_end
              /\ properties.sub_end < Len(image_in.channelnames)
              /\ \A k \in 1..Len(properties.sub_specs) :
                    /\ properties.sub_pixels[k].channels # << >>
                    /\ properties.sub_specs[k].channelnames # << >>

\* split_subimages has gone through a channel list of several layers and
\* emitted several subimages
C23_Witness ==
    /\ SplitCase
    /\ pc = "split_loop"
    /\ pos = Len(image_in.channelnames)
    /\ Len(properties.sub_specs) >= 2
    /\ properties.sub_start > 0

====
